---- MODULE Spec2Model ----
(***************************************************************************)
(* The CHIP-8 interpreter of src/main.rs: the machine state of struct      *)
(* CHIP8, the constructor, the ROM loader, the sixteen-bit fetch of cycle, *)
(* the dispatch of exec and one operator per instruction handler.          *)
(*                                                                         *)
(* Rust panics are modelled as a transition to a panicked status from      *)
(* which no cycle runs.  An index outside an array always panics.  An      *)
(* integer overflow of +, - or * panics when the crate is built with       *)
(* overflow checks (the dev profile) and wraps otherwise (the release      *)
(* profile); overflow_checks is chosen at construction and never changes.  *)
(***************************************************************************)
EXTENDS Integers, Sequences, FiniteSets, TLC

VARIABLES registers, memory, IR, PC, stack, st_pointer, video,
          status, overflow_checks, last, before, calls

vars == <<registers, memory, IR, PC, stack, st_pointer, video,
          status, overflow_checks, last, before, calls>>

----------------------------------------------------------------------------
(* Program constants *)

START_ADDRESS == 512

FONTSET_SIZE == 80

FONTSET_ADDRESS == 80

MEMORY_SIZE == 4096

NUM_REGISTERS == 16

STACK_SIZE == 16

VIDEO_WIDTH == 64

VIDEO_HEIGHT == 32

VIDEO_SIZE == VIDEO_WIDTH * VIDEO_HEIGHT

FONTSET ==
  << 240, 144, 144, 144, 240,
      32,  96,  32,  32, 112,
     240,  16, 240, 128, 240,
     240,  16, 240,  16, 240,
     144, 144, 240,  16,  16,
     240, 128, 240,  16, 240,
     240, 128, 240, 144, 240,
     240,  16,  32,  64,  64,
     240, 144, 240, 144, 240,
     240, 144, 240,  16, 240,
     240, 144, 240, 144, 144,
     224, 144, 224, 144, 224,
     240, 128, 128, 128, 240,
     224, 144, 144, 144, 224,
     240, 128, 240, 128, 240,
     240, 128, 240, 128, 128 >>

----------------------------------------------------------------------------
(* Fixed-width integer arithmetic *)

U8 == 256

U16 == 65536

\* a & b, a | b, a ^ b, bit by bit from the lowest
RECURSIVE BitAnd(_, _)
BitAnd(a, b) ==
  IF a = 0 \/ b = 0 THEN 0
  ELSE (IF a % 2 = 1 /\ b % 2 = 1 THEN 1 ELSE 0)
       + 2 * BitAnd(a \div 2, b \div 2)

RECURSIVE BitOr(_, _)
BitOr(a, b) ==
  IF a = 0 THEN b
  ELSE IF b = 0 THEN a
  ELSE (IF a % 2 = 1 \/ b % 2 = 1 THEN 1 ELSE 0)
       + 2 * BitOr(a \div 2, b \div 2)

RECURSIVE BitXor(_, _)
BitXor(a, b) ==
  IF a = 0 THEN b
  ELSE IF b = 0 THEN a
  ELSE (IF (a % 2) # (b % 2) THEN 1 ELSE 0)
       + 2 * BitXor(a \div 2, b \div 2)

RECURSIVE Pow2(_)
Pow2(n) == IF n = 0 THEN 1 ELSE 2 * Pow2(n - 1)

\* a >> n
Shr(a, n) == a \div Pow2(n)

\* a << n on a u16: the bits shifted out are dropped, the shift itself never
\* panics for n < 16
Shl16(a, n) == (a * Pow2(n)) % U16

\* the record a handler works on: the fields of struct CHIP8, and the panic
\* that stopped it ("none" while it runs)
Panic(self, kind) == [self EXCEPT !.panic = kind]

\* the panics of the program: an arithmetic overflow, and an index past the end
\* of memory, of the stack, of the video cells
Panics == {"overflow", "memory_index", "stack_index", "video_index"}

Ok(self) == self.panic = "none"

\* a + b, a - b, a * b on values of `width`: wrapped, and whether it overflowed
Overflows(v, width) == v < 0 \/ v >= width

Wrap(v, width) == v % width

\* v as u8
as_u8(v) == v % U8

----------------------------------------------------------------------------
(* Handlers.  Each takes the machine after cycle has advanced PC, and the  *)
(* opcode, and returns the machine it leaves.                              *)

\* self.video.fill(v) for the values the program fills with
blank == [i \in 0 .. VIDEO_SIZE - 1 |-> 0]

fill(v) == IF v = 0 THEN blank ELSE [i \in 0 .. VIDEO_SIZE - 1 |-> v]

\* op_00e0 leaving the framebuffer as it is
op_00e0_keeps_video(self) == self

\* 00E0 - CLS
op_00e0(self) == [self EXCEPT !.video = fill(0)]

\* op_00ee with the stack pointer and the slot index wrapping instead of panicking
op_00ee_wrapping(self) ==
  LET sp == Wrap(self.st_pointer - 1, U8)
  IN  [self EXCEPT !.st_pointer = sp, !.PC = self.stack[sp % STACK_SIZE]]

\* op_00ee that stays at the bottom of the stack instead of panicking
op_00ee_saturating(self) ==
  LET sp == IF self.st_pointer = 0 THEN 0 ELSE self.st_pointer - 1
  IN  IF sp >= STACK_SIZE THEN Panic(self, "stack_index")
      ELSE [self EXCEPT !.st_pointer = sp, !.PC = self.stack[sp]]

\* op_00ee returning to the oldest address on the stack
op_00ee_oldest_first(self) ==
  LET sp == self.st_pointer - 1
      dec == [self EXCEPT !.st_pointer = Wrap(sp, U8)]
  IN  IF Overflows(sp, U8) /\ overflow_checks THEN Panic(self, "overflow")
      ELSE IF dec.st_pointer >= STACK_SIZE THEN Panic(dec, "stack_index")
      ELSE [dec EXCEPT !.PC = self.stack[0]]

\* 00EE - RET
op_00ee(self) ==
  LET sp == self.st_pointer - 1
      dec == [self EXCEPT !.st_pointer = Wrap(sp, U8)]
  IN  IF Overflows(sp, U8) /\ overflow_checks THEN Panic(self, "overflow")
      ELSE IF dec.st_pointer >= STACK_SIZE THEN Panic(dec, "stack_index")
      ELSE [dec EXCEPT !.PC = self.stack[dec.st_pointer]]

\* 1nnn - JP addr
op_1nnn(self, opcode) == [self EXCEPT !.PC = BitAnd(opcode, 4095)]

\* op_2nnn pushing the address of the call instruction instead of the next one
op_2nnn_pushes_own_address(self, opcode) ==
  IF self.st_pointer >= STACK_SIZE THEN Panic(self, "stack_index")
  ELSE [self EXCEPT !.stack[self.st_pointer] = self.PC - 2,
                    !.st_pointer = self.st_pointer + 1,
                    !.PC = BitAnd(opcode, 4095)]

\* op_2nnn with the slot index wrapping instead of panicking
op_2nnn_wrapping(self, opcode) ==
  [self EXCEPT !.stack[self.st_pointer % STACK_SIZE] = self.PC,
               !.st_pointer = Wrap(self.st_pointer + 1, U8),
               !.PC = BitAnd(opcode, 4095)]

\* op_2nnn keeping a copy of the low byte of the return address in low memory
op_2nnn_stacks_in_memory(self, opcode) ==
  LET address == BitAnd(opcode, 4095)
      sp == self.st_pointer + 1
  IN  IF self.st_pointer >= STACK_SIZE THEN Panic(self, "stack_index")
      ELSE LET pushed == [self EXCEPT !.stack[self.st_pointer] = self.PC,
                                      !.memory[self.st_pointer] = as_u8(self.PC)]
           IN  IF Overflows(sp, U8) /\ overflow_checks
               THEN Panic(pushed, "overflow")
               ELSE [pushed EXCEPT !.st_pointer = Wrap(sp, U8),
                                   !.PC = address]

\* 2nnn - CALL addr
op_2nnn(self, opcode) ==
  LET address == BitAnd(opcode, 4095)
      sp == self.st_pointer + 1
  IN  IF self.st_pointer >= STACK_SIZE THEN Panic(self, "stack_index")
      ELSE LET pushed == [self EXCEPT !.stack[self.st_pointer] = self.PC]
           IN  IF Overflows(sp, U8) /\ overflow_checks
               THEN Panic(pushed, "overflow")
               ELSE [pushed EXCEPT !.st_pointer = Wrap(sp, U8),
                                   !.PC = address]

\* PC += 2 of the skip instructions
skip(self) ==
  IF Overflows(self.PC + 2, U16) /\ overflow_checks
  THEN Panic(self, "overflow")
  ELSE [self EXCEPT !.PC = Wrap(self.PC + 2, U16)]

\* 3xkk - SE Vx, byte
op_3xkk(self, opcode) ==
  LET value == BitAnd(opcode, 255)
      r_address == BitAnd(Shr(opcode, 8), 15)
  IN  IF self.registers[r_address] = as_u8(value) THEN skip(self) ELSE self

\* 4xkk - SNE Vx, byte
op_4xkk(self, opcode) ==
  LET value == BitAnd(opcode, 255)
      r_address == BitAnd(Shr(opcode, 8), 15)
  IN  IF self.registers[r_address] # as_u8(value) THEN skip(self) ELSE self

\* 5xy0 - SE Vx, Vy
op_5xy0(self, opcode) ==
  LET x == BitAnd(Shr(opcode, 4), 15)
      y == BitAnd(Shr(opcode, 8), 15)
  IN  IF self.registers[x] = self.registers[y] THEN skip(self) ELSE self

\* op_6xkk taking its register from bits 4-7, as the 8xyn handlers do
op_6xkk_low_register(self, opcode) ==
  LET value == BitAnd(opcode, 255)
      r_address == BitAnd(Shr(opcode, 4), 15)
  IN  [self EXCEPT !.registers[r_address] = as_u8(value)]

\* 6xkk - LD Vx, byte
op_6xkk(self, opcode) ==
  LET value == BitAnd(opcode, 255)
      r_address == BitAnd(Shr(opcode, 8), 15)
  IN  [self EXCEPT !.registers[r_address] = as_u8(value)]

\* 7xkk - ADD Vx, byte
op_7xkk(self, opcode) ==
  LET value == BitAnd(opcode, 255)
      r_address == BitAnd(Shr(opcode, 8), 15)
      sum == self.registers[r_address] + as_u8(value)
  IN  IF Overflows(sum, U8) /\ overflow_checks THEN Panic(self, "overflow")
      ELSE [self EXCEPT !.registers[r_address] = Wrap(sum, U8)]

\* 8xy0 - LD Vx, Vy
op_8xy0(self, opcode) ==
  LET x == BitAnd(Shr(opcode, 4), 15)
      y == BitAnd(Shr(opcode, 8), 15)
  IN  [self EXCEPT !.registers[x] = self.registers[y]]

\* 8xy1 - OR Vx, Vy
op_8xy1(self, opcode) ==
  LET x == BitAnd(Shr(opcode, 4), 15)
      y == BitAnd(Shr(opcode, 8), 15)
  IN  [self EXCEPT !.registers[x] = BitOr(self.registers[x], self.registers[y])]

\* 8xy2 - AND Vx, Vy
op_8xy2(self, opcode) ==
  LET x == BitAnd(Shr(opcode, 4), 15)
      y == BitAnd(Shr(opcode, 8), 15)
  IN  [self EXCEPT !.registers[x] = BitAnd(self.registers[x], self.registers[y])]

\* 8xy3 - XOR Vx, Vy
op_8xy3(self, opcode) ==
  LET x == BitAnd(Shr(opcode, 4), 15)
      y == BitAnd(Shr(opcode, 8), 15)
  IN  [self EXCEPT !.registers[x] = BitXor(self.registers[x], self.registers[y])]

\* 8xy4 - ADD Vx, Vy: u8::checked_add, and on None the plain vx + vy
op_8xy4(self, opcode) ==
  LET x == BitAnd(Shr(opcode, 4), 15)
      y == BitAnd(Shr(opcode, 8), 15)
      vx == self.registers[x]
      vy == self.registers[y]
  IN  IF ~Overflows(vx + vy, U8)
      THEN [self EXCEPT !.registers[x] = vx + vy]
      ELSE IF overflow_checks THEN Panic(self, "overflow")
      ELSE [self EXCEPT !.registers =
              [[self.registers EXCEPT ![x] = Wrap(vx + vy, U8)] EXCEPT ![15] = 1]]

\* the flag of 8xy5 and 8xy7: 1 when a > b, else 0
gt_flag(a, b) == IF a > b THEN 1 ELSE 0

\* 8xy5 - SUB Vx, Vy
op_8xy5(self, opcode) ==
  LET x == BitAnd(Shr(opcode, 4), 15)
      y == BitAnd(Shr(opcode, 8), 15)
      vx == self.registers[x]
      vy == self.registers[y]
  IN  IF Overflows(vx - vy, U8) /\ overflow_checks THEN Panic(self, "overflow")
      ELSE [self EXCEPT !.registers =
              [[self.registers EXCEPT ![x] = Wrap(vx - vy, U8)]
                 EXCEPT ![15] = gt_flag(vx, vy)]]

\* 8xy7 - SUBN Vx, Vy
op_8xy7(self, opcode) ==
  LET x == BitAnd(Shr(opcode, 4), 15)
      y == BitAnd(Shr(opcode, 8), 15)
      vx == self.registers[x]
      vy == self.registers[y]
  IN  IF Overflows(vy - vx, U8) /\ overflow_checks THEN Panic(self, "overflow")
      ELSE [self EXCEPT !.registers =
              [[self.registers EXCEPT ![x] = Wrap(vy - vx, U8)]
                 EXCEPT ![15] = gt_flag(vy, vx)]]

\* 9xy0 - SNE Vx, Vy
op_9xy0(self, opcode) ==
  LET x == BitAnd(Shr(opcode, 4), 15)
      y == BitAnd(Shr(opcode, 8), 15)
  IN  IF self.registers[x] # self.registers[y] THEN skip(self) ELSE self

\* Annn - LD I, addr
op_annn(self, opcode) == [self EXCEPT !.IR = BitAnd(opcode, 4095)]

\* Bnnn - JP V0, addr
op_bnnn(self, opcode) ==
  LET target == self.registers[0] + BitAnd(opcode, 4095)
  IN  IF Overflows(target, U16) /\ overflow_checks THEN Panic(self, "overflow")
      ELSE [self EXCEPT !.PC = Wrap(target, U16)]

\* what rand::random::<u16>() can return, as far as op_cxkk can tell: it masks
\* the value with the byte kk, so only the low byte of the u16 is used
RandomValues == 0 .. U8 - 1

\* Cxkk - RND Vx, byte; random is the u16 that rand::random returned
op_cxkk(self, opcode, random) ==
  LET value == BitAnd(opcode, 255)
      r_address == BitAnd(Shr(opcode, 8), 15)
  IN  [self EXCEPT !.registers[r_address] = as_u8(BitAnd(random, value))]

\* the cell index ((y_pos + row) * 32 + (x_pos + col)) of op_dxyn, computed in
\* u8 as the code does: the wrapped value and whether any step overflowed
video_index(x_pos, y_pos, row, col) ==
  LET yr == y_pos + row
      m == Wrap(yr, U8) * 32
      xc == x_pos + col
      sum == Wrap(m, U8) + Wrap(xc, U8)
  IN  [value |-> Wrap(sum, U8),
       overflow |-> Overflows(yr, U8) \/ Overflows(m, U8)
                    \/ Overflows(xc, U8) \/ Overflows(sum, U8)]

\* the inner loop of op_dxyn toggling the low bit of a cell instead of all eight
RECURSIVE draw_row_toggles_low_bit(_, _, _, _, _, _)
draw_row_toggles_low_bit(self, sprite_byte, x_pos, y_pos, row, col) ==
  IF col >= 8 \/ ~Ok(self) THEN self
  ELSE
    LET sprite_pixel == BitAnd(sprite_byte, Shr(128, col))
        idx == video_index(x_pos, y_pos, row, col)
    IN  IF sprite_pixel = 1
        THEN IF idx.overflow /\ overflow_checks
             THEN Panic(self, "overflow")
             ELSE IF idx.value >= VIDEO_SIZE THEN Panic(self, "video_index")
             ELSE draw_row_toggles_low_bit(
                    [self EXCEPT
                       !.registers[15] =
                          IF self.video[idx.value] = 255 THEN 1 ELSE @,
                       !.video[idx.value] = BitXor(@, 1)],
                    sprite_byte, x_pos, y_pos, row, col + 1)
        ELSE draw_row_toggles_low_bit(self, sprite_byte, x_pos, y_pos, row,
                                      col + 1)

\* the inner loop of op_dxyn over the columns of one row, from column col on
RECURSIVE draw_row(_, _, _, _, _, _)
draw_row(self, sprite_byte, x_pos, y_pos, row, col) ==
  IF col >= 8 \/ ~Ok(self) THEN self
  ELSE
    LET sprite_pixel == BitAnd(sprite_byte, Shr(128, col))
        idx == video_index(x_pos, y_pos, row, col)
    IN  IF sprite_pixel = 1
        THEN IF idx.overflow /\ overflow_checks
             THEN Panic(self, "overflow")
             ELSE IF idx.value >= VIDEO_SIZE THEN Panic(self, "video_index")
             ELSE draw_row([self EXCEPT
                              !.registers[15] =
                                 IF self.video[idx.value] = 255 THEN 1 ELSE @,
                              !.video[idx.value] = BitXor(@, 255)],
                           sprite_byte, x_pos, y_pos, row, col + 1)
        ELSE draw_row(self, sprite_byte, x_pos, y_pos, row, col + 1)

\* the outer loop of op_dxyn over the rows of the sprite, from row on
RECURSIVE draw(_, _, _, _, _)
draw(self, height, x_pos, y_pos, row) ==
  IF row >= height \/ ~Ok(self) THEN self
  ELSE
    LET addr == self.IR + row
    IN  IF Overflows(addr, U16) /\ overflow_checks THEN Panic(self, "overflow")
        ELSE IF Wrap(addr, U16) >= MEMORY_SIZE THEN Panic(self, "memory_index")
        ELSE draw(draw_row(self, self.memory[Wrap(addr, U16)],
                           x_pos, y_pos, row, 0),
                  height, x_pos, y_pos, row + 1)

\* op_dxyn without the reset of the flag register
op_dxyn_keeps_flag(self, opcode) ==
  LET height == as_u8(BitAnd(opcode, 15))
      vy == Shr(BitAnd(opcode, 240), 4)
      vx == Shr(BitAnd(opcode, 3840), 8)
      x_pos == self.registers[vx] % VIDEO_WIDTH
      y_pos == self.registers[vy] % VIDEO_HEIGHT
  IN  draw(self, height, x_pos, y_pos, 0)

\* Dxyn - DRW Vx, Vy, nibble
op_dxyn(self, opcode) ==
  LET height == as_u8(BitAnd(opcode, 15))
      vy == Shr(BitAnd(opcode, 240), 4)
      vx == Shr(BitAnd(opcode, 3840), 8)
      x_pos == self.registers[vx] % VIDEO_WIDTH
      y_pos == self.registers[vy] % VIDEO_HEIGHT
  IN  draw([self EXCEPT !.registers[15] = 0], height, x_pos, y_pos, 0)

op_null(self) == self

\* the match of exec: the handler an opcode is dispatched to
handler(opcode) ==
  LET top == Shr(BitAnd(opcode, 61440), 12)
      low == BitAnd(opcode, 15)
  IN  CASE top = 0 -> (CASE low = 0 -> "op_00e0"
                         [] low = 14 -> "op_00ee"
                         [] OTHER -> "op_null")
        [] top = 1 -> "op_1nnn"
        [] top = 2 -> "op_2nnn"
        [] top = 3 -> "op_3xkk"
        [] top = 4 -> "op_4xkk"
        [] top = 5 -> "op_5xy0"
        [] top = 6 -> "op_6xkk"
        [] top = 7 -> "op_7xkk"
        [] top = 8 -> (CASE low = 0 -> "op_8xy0"
                         [] low = 1 -> "op_8xy1"
                         [] low = 2 -> "op_8xy2"
                         [] low = 3 -> "op_8xy3"
                         [] low = 4 -> "op_8xy4"
                         [] low = 5 -> "op_8xy5"
                         [] low = 7 -> "op_8xy7"
                         [] OTHER -> "op_null")
        [] top = 9 -> "op_9xy0"
        [] top = 10 -> "op_annn"
        [] top = 11 -> "op_bnnn"
        [] top = 12 -> "op_cxkk"
        [] top = 13 -> "op_dxyn"
        [] OTHER -> "op_null"

\* exec: the handler run on the opcode
exec(self, opcode, random) ==
  LET h == handler(opcode)
  IN  CASE h = "op_00e0" -> op_00e0(self)
        [] h = "op_00ee" -> op_00ee(self)
        [] h = "op_1nnn" -> op_1nnn(self, opcode)
        [] h = "op_2nnn" -> op_2nnn(self, opcode)
        [] h = "op_3xkk" -> op_3xkk(self, opcode)
        [] h = "op_4xkk" -> op_4xkk(self, opcode)
        [] h = "op_5xy0" -> op_5xy0(self, opcode)
        [] h = "op_6xkk" -> op_6xkk(self, opcode)
        [] h = "op_7xkk" -> op_7xkk(self, opcode)
        [] h = "op_8xy0" -> op_8xy0(self, opcode)
        [] h = "op_8xy1" -> op_8xy1(self, opcode)
        [] h = "op_8xy2" -> op_8xy2(self, opcode)
        [] h = "op_8xy3" -> op_8xy3(self, opcode)
        [] h = "op_8xy4" -> op_8xy4(self, opcode)
        [] h = "op_8xy5" -> op_8xy5(self, opcode)
        [] h = "op_8xy7" -> op_8xy7(self, opcode)
        [] h = "op_9xy0" -> op_9xy0(self, opcode)
        [] h = "op_annn" -> op_annn(self, opcode)
        [] h = "op_bnnn" -> op_bnnn(self, opcode)
        [] h = "op_cxkk" -> op_cxkk(self, opcode, random)
        [] h = "op_dxyn" -> op_dxyn(self, opcode)
        [] OTHER -> op_null(self)

----------------------------------------------------------------------------
(* The cycle *)

\* the opcode cycle forms from two bytes:
\* ((hi as u16 | 0xFF00) << 8) | lo as u16
make_opcode(hi, lo) == BitOr(Shl16(BitOr(hi, 65280), 8), lo)

\* both bytes of the instruction at PC are inside memory
fetchable(self) ==
  self.PC < MEMORY_SIZE /\ Wrap(self.PC + 1, U16) < MEMORY_SIZE

\* the opcode at PC, for a machine whose fetch is inside memory
fetch(self) ==
  make_opcode(self.memory[self.PC], self.memory[Wrap(self.PC + 1, U16)])

\* self.PC += 2 of cycle
advance(self) ==
  IF Overflows(self.PC + 2, U16) /\ overflow_checks
  THEN Panic(self, "overflow")
  ELSE [self EXCEPT !.PC = Wrap(self.PC + 2, U16)]

\* cycle with the handler run before PC is advanced
cycle_advances_last(self, random) ==
  IF ~fetchable(self) THEN Panic(self, "memory_index")
  ELSE LET done == exec(self, fetch(self), random)
       IN  IF Ok(done) THEN advance(done) ELSE done

\* cycle: fetch, advance PC, exec
cycle(self, random) ==
  IF self.PC >= MEMORY_SIZE THEN Panic(self, "memory_index")
  ELSE IF Overflows(self.PC + 1, U16) /\ overflow_checks
  THEN Panic(self, "overflow")
  ELSE IF Wrap(self.PC + 1, U16) >= MEMORY_SIZE
  THEN Panic(self, "memory_index")
  ELSE LET opcode == fetch(self)
           next == advance(self)
       IN  IF Ok(next) THEN exec(next, opcode, random) ELSE next

----------------------------------------------------------------------------
(* The machine of main, and what it does to it *)

\* the machine as the record the handlers work on
chip8 ==
  [registers |-> registers, memory |-> memory, IR |-> IR, PC |-> PC,
   stack |-> stack, st_pointer |-> st_pointer, video |-> video,
   panic |-> "none"]

\* the machine a call leaves, or the panic that ended the run
commit(self) ==
  /\ registers' = self.registers
  /\ memory' = self.memory
  /\ IR' = self.IR
  /\ PC' = self.PC
  /\ stack' = self.stack
  /\ st_pointer' = self.st_pointer
  /\ video' = self.video
  /\ status' = IF Ok(self) THEN "running" ELSE self.panic
  /\ UNCHANGED overflow_checks

\* what is kept of a cycle for the cycles after it: where it fetched, whether
\* both bytes were inside memory and the opcode they formed, the stack pointer
\* it started with, and whether every cell of the framebuffer was off
observe ==
  [pc |-> PC, fetched |-> fetchable(chip8),
   opcode |-> IF fetchable(chip8) THEN fetch(chip8) ELSE 0,
   st_pointer |-> st_pointer, video_blank |-> video = blank]

\* no cycle yet
unobserved ==
  [pc |-> 0, fetched |-> FALSE, opcode |-> 0, st_pointer |-> 0,
   video_blank |-> TRUE]

\* the random numbers a cycle may draw: op_cxkk alone calls rand::random
draws ==
  IF fetchable(chip8) /\ handler(fetch(chip8)) = "op_cxkk"
  THEN RandomValues ELSE {0}

----------------------------------------------------------------------------
(* ROM images.  A ROM is the byte vector fs::read returns; the programs    *)
(* below are written as 16-bit words, high byte first.                     *)

\* the most call instructions a generated program chains
MaxCallDepth == 17

\* register values the generated programs load
Operands == {0, 1, 10, 250, 255}

Word(a, b, c, d) == a * 4096 + b * 256 + c * 16 + d

Bytes(words) ==
  [i \in 1 .. 2 * Len(words) |->
     IF i % 2 = 1 THEN words[(i + 1) \div 2] \div 256
     ELSE words[i \div 2] % 256]

Zeros(n) == [i \in 1 .. n |-> 0]

\* the address of the k-th word (from 0) of a loaded ROM
AddressOf(k) == START_ADDRESS + 2 * k

\* 1nnn to the k-th word
JumpTo(k) == 4096 + AddressOf(k)

\* 2nnn to the k-th word
CallTo(k) == 8192 + AddressOf(k)

\* load f, a, b into VF, V[p], V[q], run 8pqn, stop in a jump to itself
ArithProgram(n, p, q, a, b, f) ==
  << Word(6, 15, 0, 0) + f, Word(6, p, 0, 0) + a, Word(6, q, 0, 0) + b,
     Word(8, p, q, n), JumpTo(4) >>

ArithPrograms ==
  { ArithProgram(n, pq[1], pq[2], a, b, f) :
      n \in {0, 1, 2, 3, 4, 5, 7},
      pq \in {<<3, 4>>, <<3, 3>>, <<15, 3>>, <<3, 15>>},
      a \in Operands, b \in Operands, f \in {0, 1} }

\* load f, a into VF, V[p], run 7pkk
AddImmProgram(p, a, k, f) ==
  << Word(6, 15, 0, 0) + f, Word(6, p, 0, 0) + a, Word(7, p, 0, 0) + k,
     JumpTo(3) >>

AddImmPrograms ==
  { AddImmProgram(p, a, k, f) :
      p \in {3, 15}, a \in Operands, k \in Operands, f \in {0, 1} }

\* d nested subroutines: the k-th (from 0) is a call to the next and a return,
\* two words at word 2k
CallChain(d) ==
  [i \in 1 .. 2 * d |-> IF i % 2 = 1 THEN CallTo(i + 1) ELSE 238]

\* d nested calls, then a return in the innermost
ChainPrograms == { CallChain(d) \o << 238 >> : d \in 0 .. MaxCallDepth }

\* d nested calls, then a call to a return 256 bytes further on, then a stop
FarCallProgram(d) ==
  CallChain(d) \o << CallTo(2 * d + 128), JumpTo(2 * d + 1) >> \o Zeros(126)
    \o << 238 >>

FarCallPrograms == { FarCallProgram(d) : d \in 0 .. MaxCallDepth }

\* the skip instructions 3pkk, 4pkk, 5pq0, 9pq0 over two loaded registers
SkipProgram(t, a, b) ==
  << Word(6, 3, 0, 0) + a, Word(6, 4, 0, 0) + b,
     IF t \in {3, 4} THEN Word(t, 3, 0, 0) + b ELSE Word(t, 3, 4, 0),
     Word(6, 5, 0, 1), Word(6, 6, 0, 2), JumpTo(5) >>

SkipPrograms ==
  { SkipProgram(t, a, b) : t \in {3, 4, 5, 9}, a \in {0, 1, 255}, b \in {0, 1, 255} }

\* point I at the sprite in the last two words, load the position, draw the
\* sprite twice, clear the screen, stop
DrawProgram(a, b, n, sprite) ==
  << 40960 + AddressOf(7), Word(6, 1, 0, 0) + a, Word(6, 2, 0, 0) + b,
     Word(13, 1, 2, n), Word(13, 1, 2, n), 224, JumpTo(6) >> \o sprite

DrawPrograms ==
  { DrawProgram(a, b, n, sprite) :
      a \in {0, 56, 57, 63, 200}, b \in {0, 6, 7, 8, 31, 250}, n \in {0, 1, 2, 4},
      sprite \in { << 511, 33153 >>, << 61680, 3855 >> } }

\* programs that leave the 4096 bytes of memory, unimplemented instructions,
\* random numbers
OtherPrograms ==
  { << >>,
    << 8192 + START_ADDRESS >>,
    << 238 >>,
    << 4096 + 4094 >>,
    << 4096 + 4095 >>,
    << 40960 + 4095, Word(13, 0, 0, 2), JumpTo(2) >>,
    << 40960 + 4094, Word(13, 0, 0, 2), JumpTo(2) >>,
    << Word(6, 0, 15, 15), 45056 + 4095 >>,
    << Word(6, 0, 0, 4), 45056 + START_ADDRESS, Word(6, 1, 0, 1), JumpTo(3) >>,
    << Word(12, 3, 0, 15), Word(12, 4, 15, 0), Word(8, 3, 4, 1), JumpTo(3) >>,
    << Word(6, 3, 0, 7), 1, Word(8, 3, 3, 6), Word(8, 3, 3, 14), Word(14, 3, 9, 14),
       Word(15, 3, 0, 7), Word(0, 1, 2, 3), Word(8, 3, 4, 15), JumpTo(8) >>,
    << Word(6, 15, 0, 1), 40960 + AddressOf(4), Word(13, 0, 0, 1), JumpTo(3),
       256 >>,
    << 40960 + AddressOf(3), Word(13, 0, 0, 9), JumpTo(2),
       257, 257, 257, 257, 257 >>,
    << Word(6, 10, 0, 5), CallTo(3), JumpTo(2), 238 >> }

\* light one cell (the sprite byte 0x01 drawn at column 0, row 0), run the word
\* w, stop
AfterDrawProgram(w) ==
  << 40960 + AddressOf(4), Word(13, 0, 0, 1), w, JumpTo(3), 256 >>

AfterDrawPrograms ==
  { AfterDrawProgram(w) :
      w \in {224, 0, Word(0, 2, 3, 0), 14, Word(5, 0, 1, 1), Word(9, 0, 15, 3),
             Word(8, 0, 1, 6), Word(8, 0, 1, 14), Word(14, 0, 9, 14),
             Word(15, 0, 0, 7), Word(6, 10, 0, 5), Word(6, 15, 15, 15)} }

Programs ==
  ArithPrograms \cup AddImmPrograms \cup ChainPrograms \cup FarCallPrograms
    \cup SkipPrograms \cup DrawPrograms \cup OtherPrograms
    \cup AfterDrawPrograms

Roms == { Bytes(words) : words \in Programs }

----------------------------------------------------------------------------
(* Construction, loading, and the run *)

\* CHIP8::new(), and the profile the crate was built with
Init ==
  /\ registers = [i \in 0 .. NUM_REGISTERS - 1 |-> 0]
  /\ memory = [a \in 0 .. MEMORY_SIZE - 1 |->
                 IF a >= FONTSET_ADDRESS /\ a < FONTSET_ADDRESS + FONTSET_SIZE
                 THEN FONTSET[a - FONTSET_ADDRESS + 1] ELSE 0]
  /\ PC = START_ADDRESS
  /\ video = fill(0)
  /\ IR = 0
  /\ stack = [i \in 0 .. STACK_SIZE - 1 |-> 0]
  /\ st_pointer = 0
  /\ status = "constructed"
  /\ overflow_checks \in BOOLEAN
  /\ last = unobserved
  /\ before = unobserved
  /\ calls = << >>

\* CHIP8::load_rom: byte i (from 0) of the ROM is stored at START_ADDRESS + i,
\* and the first one past the end of memory panics, the bytes before it stored
load_rom(self, rom) ==
  LET fits == START_ADDRESS + Len(rom) <= MEMORY_SIZE
      stored == IF fits THEN Len(rom) ELSE MEMORY_SIZE - START_ADDRESS
      image == [a \in START_ADDRESS .. START_ADDRESS + stored - 1 |->
                  rom[a - START_ADDRESS + 1]]
      written == [self EXCEPT !.memory = image @@ self.memory]
  IN  IF fits THEN written ELSE Panic(written, "memory_index")

\* main: the ROM named on the command line is loaded
LoadRom ==
  /\ status = "constructed"
  /\ \E rom \in Roms : commit(load_rom(chip8, rom))
  /\ UNCHANGED <<last, before, calls>>

\* the return addresses of the calls not yet returned from, oldest first, after
\* a cycle that went to handler h and left the machine running: a completed
\* call adds the address after its own, which the cycle had advanced PC to, a
\* completed return takes the newest away
pending(h) ==
  IF h = "op_2nnn" THEN Append(calls, PC + 2)
  ELSE IF h = "op_00ee" THEN SubSeq(calls, 1, Len(calls) - 1)
  ELSE calls

\* main: one turn of the window loop
Cycle ==
  /\ status = "running"
  /\ \E random \in draws : commit(cycle(chip8, random))
  /\ last' = observe
  /\ before' = last
  /\ calls' = IF status' = "running" /\ fetchable(chip8)
              THEN pending(handler(fetch(chip8)))
              ELSE calls

Next == LoadRom \/ Cycle

Spec == Init /\ [][Next]_vars

TypeOK ==
  /\ registers \in [0 .. NUM_REGISTERS - 1 -> 0 .. U8 - 1]
  /\ IR \in 0 .. U16 - 1
  /\ PC \in 0 .. U16 - 1
  /\ stack \in [0 .. STACK_SIZE - 1 -> 0 .. U16 - 1]
  /\ st_pointer \in 0 .. U8 - 1
  /\ status \in {"constructed", "running"} \cup Panics
  /\ overflow_checks \in BOOLEAN
  /\ calls \in Seq(0 .. U16 - 1)

----------------------------------------------------------------------------
(* Properties *)

Running == status = "running"

Panicked == status \in Panics

\* the machine is about to run a cycle whose opcode goes to handler h
about_to(h) ==
  Running /\ fetchable(chip8) /\ handler(fetch(chip8)) = h

\* the observed cycle formed an opcode that went to handler h
ran(cycle_seen, h) == cycle_seen.fetched /\ handler(cycle_seen.opcode) = h

\* the opcode about to run, and the register fields as the 8xyn handlers decode
\* them: x from bits 4-7, y from bits 8-11
next_opcode == fetch(chip8)

x_of(opcode) == BitAnd(Shr(opcode, 4), 15)

y_of(opcode) == BitAnd(Shr(opcode, 8), 15)

next_vx == registers[x_of(next_opcode)]

next_vy == registers[y_of(next_opcode)]

\* once the run has panicked nothing changes any more
Halted == Panicked => UNCHANGED vars

\* C1: a call made with fewer than 16 return addresses on the stack, followed
\* at once by a return, leaves the program counter at the address after the
\* call instruction and the stack pointer at its value before the call.
C1_CallReturnRoundTrip ==
  (/\ ran(before, "op_2nnn")
   /\ before.st_pointer < STACK_SIZE
   /\ ran(last, "op_00ee"))
    => /\ Running
       /\ PC = before.pc + 2
       /\ st_pointer = before.st_pointer

\* the scenario of the specification: 0x2300 at 0x200, 0x00EE at 0x300
C1_Witness ==
  /\ before = [pc |-> 512, fetched |-> TRUE, opcode |-> 8960, st_pointer |-> 0,
               video_blank |-> TRUE]
  /\ last = [pc |-> 768, fetched |-> TRUE, opcode |-> 238, st_pointer |-> 1,
             video_blank |-> TRUE]
  /\ Running
  /\ PC = 514
  /\ st_pointer = 0

\* C2: while the machine runs, the stack pointer is between 0 and 16; no cycle
\* completes leaving it above 16 or wrapped below 0.
C2_StackPointerInRange ==
  status \in {"constructed", "running"}
    => st_pointer >= 0 /\ st_pointer <= STACK_SIZE

\* sixteen return addresses are on the stack after a call
C2_Witness ==
  Running /\ st_pointer = STACK_SIZE /\ ran(last, "op_2nnn")

\* C3: a call with the stack pointer at 16 ends the run in a panic: no stack
\* slot is written, the stack pointer stays, the program counter is left at the
\* address after the call and not set to the target, and nothing runs after.
C3_CallOverflowFails ==
  [][/\ (about_to("op_2nnn") /\ st_pointer = STACK_SIZE)
          => /\ status' \in Panics
             /\ stack' = stack
             /\ st_pointer' = st_pointer
             /\ PC' = PC + 2
     /\ Halted]_vars

\* a seventeenth nested call has panicked
C3_Witness ==
  /\ status = "stack_index"
  /\ ran(last, "op_2nnn")
  /\ last.st_pointer = STACK_SIZE

\* C4: a return with the stack pointer at 0 ends the run in a panic: the
\* program counter is left at the address after the return and not set from a
\* stack slot, the stack is as it was, and nothing runs after.
C4_ReturnUnderflowFails ==
  [][/\ (about_to("op_00ee") /\ st_pointer = 0)
          => /\ status' \in Panics
             /\ PC' = PC + 2
             /\ stack' = stack
     /\ Halted]_vars

\* a return with nothing on the stack has panicked
C4_Witness ==
  /\ Panicked
  /\ ran(last, "op_00ee")
  /\ last.st_pointer = 0

\* the flag a comparison sets: 1 when it holds, else 0
flag_of(holds) == IF holds THEN 1 ELSE 0

\* C5: after add-registers the flag register is 1 if the sum of the two operand
\* values exceeds 255 and 0 otherwise, whatever the flag register held before
\* (stated for operand registers other than the flag register itself).
C5_AddRegistersFlag ==
  [][(/\ about_to("op_8xy4")
      /\ x_of(next_opcode) # 15
      /\ y_of(next_opcode) # 15
      /\ Running')
       => registers'[15] = flag_of(next_vx + next_vy > 255)]_vars

\* the register fields as C6 states them: the primary operand and destination
\* from bits 8-11, the secondary operand from bits 4-7
primary_of(opcode) == BitAnd(Shr(opcode, 8), 15)

secondary_of(opcode) == BitAnd(Shr(opcode, 4), 15)

\* what a two-register instruction leaves in its destination, from the value a
\* of the primary and b of the secondary operand
two_register_result(h, a, b) ==
  CASE h = "op_8xy0" -> b
    [] h = "op_8xy1" -> BitOr(a, b)
    [] h = "op_8xy2" -> BitAnd(a, b)
    [] h = "op_8xy3" -> BitXor(a, b)
    [] h = "op_8xy4" -> (a + b) % U8
    [] h = "op_8xy5" -> (a - b) % U8
    [] h = "op_8xy7" -> (b - a) % U8

TwoRegisterHandlers ==
  {"op_8xy0", "op_8xy1", "op_8xy2", "op_8xy3", "op_8xy4", "op_8xy5", "op_8xy7"}

\* C6: a two-register instruction that completes leaves its result in the
\* register of bits 8-11 and leaves the register of bits 4-7 unchanged when the
\* two differ (and neither is the flag register); and add-registers(3,4) with
\* register 3 = 10 and register 4 = 250 leaves register 3 = 4, register 0xF = 1.
C6_OperandFields ==
  [][/\ \A h \in TwoRegisterHandlers :
          (/\ about_to(h)
           /\ primary_of(next_opcode) # secondary_of(next_opcode)
           /\ primary_of(next_opcode) # 15
           /\ secondary_of(next_opcode) # 15
           /\ Running')
            => /\ registers'[primary_of(next_opcode)] =
                    two_register_result(h, registers[primary_of(next_opcode)],
                                        registers[secondary_of(next_opcode)])
               /\ registers'[secondary_of(next_opcode)] =
                    registers[secondary_of(next_opcode)]
     /\ (/\ Running /\ fetchable(chip8) /\ next_opcode = 33604
         /\ registers[3] = 10 /\ registers[4] = 250)
          => (Running' /\ registers'[3] = 4 /\ registers'[15] = 1)]_vars

\* C7: after subtract the flag register is 1 iff the minuend is at least the
\* subtrahend (equal operands give 1); after subtract-reverse the same with the
\* operands swapped.
C7_SubtractFlag ==
  [][/\ (about_to("op_8xy5") /\ Running')
          => registers'[15] = flag_of(next_vx >= next_vy)
     /\ (about_to("op_8xy7") /\ Running')
          => registers'[15] = flag_of(next_vy >= next_vx)]_vars

\* C8: subtract and subtract-reverse always complete, and leave the wrapped
\* 8-bit difference in the destination register (here other than the flag
\* register, which the flag overwrites).
C8_SubtractWraps ==
  [][/\ (about_to("op_8xy5") /\ x_of(next_opcode) # 15)
          => /\ Running'
             /\ registers'[x_of(next_opcode)] = (next_vx - next_vy) % U8
     /\ (about_to("op_8xy7") /\ x_of(next_opcode) # 15)
          => /\ Running'
             /\ registers'[x_of(next_opcode)] = (next_vy - next_vx) % U8]_vars

\* C9: add-immediate always completes with the register equal to the old value
\* plus the immediate, modulo 256, and leaves the flag register unchanged.
C9_AddImmediateWraps ==
  [][about_to("op_7xkk")
       => /\ Running'
          /\ registers'[y_of(next_opcode)] =
               (registers[y_of(next_opcode)] + BitAnd(next_opcode, 255)) % U8
          /\ y_of(next_opcode) # 15 => registers'[15] = registers[15]]_vars

\* C10: no cycle indexes memory outside its 4096 bytes: no run ends in an
\* out-of-range memory access, by the fetch or by draw-sprite.
C10_MemoryAccessInRange == status # "memory_index"

\* C11: the program counter is inside memory, below 0x1000, in every state:
\* after a jump with offset, after a skip, and after the advance of a cycle
\* fetched at the top of memory.
C11_ProgramCounterInRange == PC >= 0 /\ PC < MEMORY_SIZE

\* the words the specification lists as implemented instructions: 00E0, 00EE,
\* 1nnn, 2nnn, 3xkk, 4xkk, 5xy0, 6xkk, 7xkk, 8xy0 to 8xy5, 8xy7, 9xy0, Annn,
\* Bnnn, Cxkk, Dxyn
implemented(word) ==
  \/ word \in {224, 238}
  \/ Shr(word, 12) \in {1, 2, 3, 4, 6, 7, 10, 11, 12, 13}
  \/ Shr(word, 12) \in {5, 9} /\ BitAnd(word, 15) = 0
  \/ Shr(word, 12) = 8 /\ BitAnd(word, 15) \in {0, 1, 2, 3, 4, 5, 7}

\* C12: a cycle whose word is not an implemented instruction is a skipped
\* cycle: it does not fail and changes nothing but the program counter, which
\* advances by 2.
C12_UnimplementedSkipped ==
  [][(Running /\ fetchable(chip8) /\ ~implemented(next_opcode))
       => /\ Running'
          /\ PC' = PC + 2
          /\ UNCHANGED <<registers, memory, IR, stack, st_pointer, video>>]_vars

\* the operands of the draw about to run, as the specification names them:
\* height n in bits 0-3, register_y in bits 4-7, register_x in bits 8-11
draw_height == BitAnd(next_opcode, 15)

draw_x == registers[BitAnd(Shr(next_opcode, 8), 15)]

draw_y == registers[BitAnd(Shr(next_opcode, 4), 15)]

\* the draw about to run reads its sprite bytes inside memory
draw_reads_memory == IR + draw_height <= MEMORY_SIZE

bit_set(byte, k) == (byte \div Pow2(k)) % 2 = 1

\* the cells the specification has the draw toggle: for a set bit 7 - c of
\* sprite byte r, the cell of column (register_x + c) mod 64 and row
\* (register_y + r) mod 32 of the 64-wide grid
intended_cells ==
  { ((draw_y + rc[1]) % VIDEO_HEIGHT) * VIDEO_WIDTH
      + ((draw_x + rc[2]) % VIDEO_WIDTH) :
    rc \in { p \in (0 .. draw_height - 1) \X (0 .. 7) :
               bit_set(memory[IR + p[1]], 7 - p[2]) } }

\* C13: a draw toggles exactly the intended cells: each cell of a set sprite
\* bit, at its position wrapped per pixel, is toggled once, and no other cell
\* changes.
C13_DrawTogglesIntended ==
  [][(about_to("op_dxyn") /\ draw_reads_memory)
       => \A i \in 0 .. VIDEO_SIZE - 1 :
            video'[i] = IF i \in intended_cells
                          THEN BitXor(video[i], 255)
                          ELSE video[i]]_vars

\* the draw about to run takes its position from registers other than the
\* flag register, so that a second draw has the same position
draw_position_kept ==
  BitAnd(Shr(next_opcode, 8), 15) # 15 /\ BitAnd(Shr(next_opcode, 4), 15) # 15

\* C14: drawing the same sprite at the same position twice in succession
\* completes both times and restores every cell to its value before the first
\* draw; the flag after the second draw is 1 iff the second draw turned off a
\* cell that was on after the first.
C14_DrawTwiceRestores ==
  (about_to("op_dxyn") /\ draw_reads_memory /\ draw_position_kept)
    => LET first == op_dxyn(chip8, next_opcode)
           second == op_dxyn(first, next_opcode)
       IN  /\ Ok(first)
           /\ Ok(second)
           /\ second.video = video
           /\ second.registers[15] = 1
                <=> \E i \in 0 .. VIDEO_SIZE - 1 :
                      first.video[i] = 255 /\ second.video[i] = 0

\* the toggles the draw about to run performs, in order: pixel k is column
\* k mod 8 of row k div 8, toggled when the masked sprite bit passes the test of
\* op_dxyn, at the cell the handler indexes
draw_toggles ==
  { k \in 0 .. draw_height * 8 - 1 :
      BitAnd(memory[IR + k \div 8], Shr(128, k % 8)) = 1 }

toggled_cell(k) ==
  video_index(draw_x % VIDEO_WIDTH, draw_y % VIDEO_HEIGHT, k \div 8, k % 8).value

\* the cell of toggle k is on when toggle k reaches it: it was on before the
\* draw and an even number of earlier toggles hit it, or off and an odd number
on_when_toggled(k) ==
  LET earlier == { j \in draw_toggles : j < k /\ toggled_cell(j) = toggled_cell(k) }
  IN  (video[toggled_cell(k)] = 255) <=> (Cardinality(earlier) % 2 = 0)

\* C15: after a draw the flag register is 1 iff at least one toggle of this draw
\* turned a cell that was on off, and 0 otherwise (height 0 and sprites without
\* a drawn bit included), whatever the flag register held before.
C15_DrawFlag ==
  [][(about_to("op_dxyn") /\ draw_reads_memory /\ Running')
       => registers'[15] =
            IF \E k \in draw_toggles : on_when_toggled(k) THEN 1 ELSE 0]_vars

\* a draw onto a lit cell has completed with the flag set
C15_Witness ==
  Running /\ ran(last, "op_dxyn") /\ registers[15] = 1 /\ video = blank

\* C16: a cycle that executes the word 0x00E0 leaves every cell of the
\* framebuffer off, whatever it held, advances the program counter by 2 and
\* leaves registers, index register, stack, stack pointer and memory unchanged.
C16_ClearScreen ==
  [][(Running /\ fetchable(chip8) /\ next_opcode = 224)
       => /\ Running'
          /\ \A i \in 0 .. VIDEO_SIZE - 1 : video'[i] = 0
          /\ PC' = PC + 2
          /\ UNCHANGED <<registers, IR, stack, st_pointer, memory>>]_vars

\* the word 0x00E0 has run on a framebuffer with a lit cell
C16_Witness ==
  /\ Running
  /\ last.fetched /\ last.opcode = 224 /\ ~last.video_blank
  /\ video = blank
  /\ PC = last.pc + 2

\* the word at the program counter, high byte first
word_at_pc == 256 * memory[PC] + memory[PC + 1]

\* the handlers that leave the program counter to the cycle
NonControlFlow ==
  {"op_00e0", "op_6xkk", "op_7xkk", "op_8xy0", "op_8xy1", "op_8xy2", "op_8xy3",
   "op_8xy4", "op_8xy5", "op_8xy7", "op_annn", "op_cxkk", "op_dxyn", "op_null"}

\* C17: a cycle dispatches exactly the word 256 * memory[PC] + memory[PC + 1],
\* with no extra bit set, to its handler, and the handler runs with the program
\* counter already advanced by 2: a call pushes the address of the following
\* instruction, and an instruction that is not control flow ends the cycle
\* with the program counter advanced by 2.
C17_CycleDispatch ==
  [][(Running /\ fetchable(chip8))
       => /\ last'.opcode = word_at_pc
          /\ \E random \in draws :
               LET done == exec([chip8 EXCEPT !.PC = PC + 2], word_at_pc, random)
               IN  /\ status' = IF Ok(done) THEN "running" ELSE done.panic
                   /\ registers' = done.registers
                   /\ IR' = done.IR
                   /\ PC' = done.PC
                   /\ stack' = done.stack
                   /\ st_pointer' = done.st_pointer
                   /\ video' = done.video
          /\ (handler(word_at_pc) = "op_2nnn" /\ Running')
               => stack'[st_pointer] = PC + 2
          /\ (handler(word_at_pc) \in NonControlFlow /\ Running')
               => PC' = PC + 2]_vars

\* a call has pushed the address after its own and gone to its target, and
\* the cycle before it, not control flow, went on to the following word
C17_Witness ==
  /\ Running
  /\ ran(last, "op_2nnn")
  /\ last.opcode = 256 * memory[last.pc] + memory[last.pc + 1]
  /\ stack[last.st_pointer] = last.pc + 2
  /\ PC = last.opcode % 4096
  /\ before.fetched /\ handler(before.opcode) \in NonControlFlow
  /\ last.pc = before.pc + 2

\* C18: a cycle that executes 6xkk leaves register x equal to kk and the
\* program counter advanced by 2; every other register, the index register,
\* the stack, the stack pointer, memory and the framebuffer are unchanged.
C18_LoadImmediate ==
  [][about_to("op_6xkk")
       => /\ Running'
          /\ registers' =
               [registers EXCEPT ![(word_at_pc \div 256) % 16] = word_at_pc % 256]
          /\ PC' = PC + 2
          /\ UNCHANGED <<IR, stack, st_pointer, memory, video>>]_vars

\* the word 0x6A05 has run and register 0xA holds 5
C18_Witness ==
  /\ Running
  /\ last.fetched /\ last.opcode = 27141
  /\ registers[10] = 5
  /\ PC = last.pc + 2

\* C19: calls and returns nest last in, first out: a return goes to the return
\* address pushed by the newest call not yet returned from and takes the stack pointer
\* one down, so that n calls followed by n returns come back through the pushed
\* addresses in reverse order to the stack pointer they started from; and no
\* cycle other than a call changes any stack slot.
C19_CallsNest ==
  [][/\ Running => st_pointer = Len(calls)
     /\ (about_to("op_00ee") /\ Running')
          => /\ calls # << >>
             /\ PC' = calls[Len(calls)]
             /\ st_pointer' = st_pointer - 1
     /\ (Running /\ ~about_to("op_2nnn")) => stack' = stack]_vars

\* two nested calls have returned one after the other, the inner one to the
\* address pushed second, the outer one to the address pushed first
C19_Witness ==
  /\ Running
  /\ ran(before, "op_00ee") /\ before.st_pointer = 2
  /\ ran(last, "op_00ee") /\ last.st_pointer = 1
  /\ last.pc = stack[1]
  /\ PC = stack[0]
  /\ stack[0] # stack[1]
  /\ st_pointer = 0
  /\ calls = << >>

\* memory as the specification describes it after construction: the font table
\* at 0x050 to 0x09F, every other byte 0
font_only(a) == IF a >= 80 /\ a <= 159 THEN FONTSET[a - 79] ELSE 0

\* C20: memory is read-only to the instruction cycle: after construction it
\* holds the 80 bytes of the font table at 0x050 to 0x09F and 0 everywhere
\* else, and no cycle changes any byte of it, whatever the word and the state,
\* so the font table and the ROM bytes stay as loaded.
C20_MemoryReadOnly ==
  [][/\ status = "constructed"
          => \A a \in 0 .. MEMORY_SIZE - 1 : memory[a] = font_only(a)
     /\ Running => /\ memory' = memory
                   /\ \A a \in 80 .. 159 : memory'[a] = font_only(a)]_vars

\* two cycles have run and the first ROM byte and the font table are in
\* memory as loaded, the bytes below the font table still 0
C20_Witness ==
  /\ status \in {"running"} \cup Panics
  /\ last.fetched /\ before.fetched
  /\ memory[START_ADDRESS] # 0
  /\ memory[80] = 240 /\ memory[159] = 128
  /\ memory[0] = 0

\* C21: the framebuffer stays binary: in every state reached from the
\* constructed machine each of the 2048 cells holds 0 (off) or 0xFF (on), and
\* only a cycle dispatched to the clear-screen or the draw-sprite handler
\* changes any cell.
C21_FramebufferBinary ==
  [][/\ video \in [0 .. VIDEO_SIZE - 1 -> {0, 255}]
     /\ video' \in [0 .. VIDEO_SIZE - 1 -> {0, 255}]
     /\ ~(about_to("op_00e0") \/ about_to("op_dxyn")) => video' = video]_vars

\* a draw has lit cell 7, and the load-immediate cycle after it has left the
\* framebuffer with that one cell on
C21_Witness ==
  /\ Running
  /\ ran(before, "op_dxyn") /\ before.video_blank
  /\ ran(last, "op_6xkk") /\ ~last.video_blank
  /\ \A i \in 0 .. VIDEO_SIZE - 1 : video[i] = IF i = 7 THEN 255 ELSE 0

====
